---------------------------- MODULE Spec2Model ----------------------------
(***************************************************************************)
(* Model of the shareholder-PDF pipeline: parse_shareholder_pdf            *)
(* (src/src/pdf_parser.py), run_etl and get_target_date (src/main.py) and  *)
(* run_backfill (src/test_runner.py).                                      *)
(*                                                                         *)
(* A document is the sequence of what page.extract_table() returns for     *)
(* each page.  Text is kept as TLA+ strings over a finite alphabet; the    *)
(* string functions of the code (strip, split on newline, upper, the date  *)
(* regex, removal of "," and "%", pd.to_numeric) are tables over that      *)
(* alphabet.  pandas is modelled by its documented behaviour on object     *)
(* columns: None/NaN are missing values, a DataFrame keeps an index label  *)
(* per row, a list of ragged rows is padded with None to the longest row.  *)
(***************************************************************************)
EXTENDS Integers, Sequences, FiniteSets, TLC

(***************************************************************************)
(* Values held by a cell.  Every value is a record of the same shape so    *)
(* that any two can be compared.  Numbers are kept in hundredths.          *)
(***************************************************************************)
None == [k |-> "None", s |-> "", n |-> 0]
NaN == [k |-> "nan", s |-> "", n |-> 0]
Str(s) == [k |-> "str", s |-> s, n |-> 0]
Num(n) == [k |-> "num", s |-> "", n |-> n]

\* pandas isna(): None and NaN are missing; the empty string is not.
isna(v) == v.k \in {"None", "nan"}

\* Python truthiness of `x or ""` followed by str(): None and "" give "".
OrEmpty(v) == IF v.k = "str" THEN v.s ELSE ""

(***************************************************************************)
(* String tables.                                                          *)
(***************************************************************************)
\* str.strip()
Strip(s) ==
    CASE s = " " -> ""
      [] s = " No" -> "No"
      [] s = " AAAA " -> "AAAA"
      [] OTHER -> s

\* "\n" in raw_h
HasNewline(s) == s \in {"1766\nNo", "Per 18-DEC-2025\nJumlah Saham"}

\* raw_h.split("\n")[-1].strip(), falling back to parts[-2] when empty
LastLine(s) ==
    CASE s = "1766\nNo" -> "No"
      [] s = "Per 18-DEC-2025\nJumlah Saham" -> "Jumlah Saham"
      [] OTHER -> s

\* str.upper()
Upper(s) ==
    CASE s = "No" -> "NO"
      [] s = "1766\nNo" -> "1766\nNO"
      [] s = "Nama Emiten" -> "NAMA EMITEN"
      [] s = "Alamat" -> "ALAMAT"
      [] s = "Nama Pemegang Saham" -> "NAMA PEMEGANG SAHAM"
      [] s = "Kebangsaan" -> "KEBANGSAAN"
      [] s = "Perubahan" -> "PERUBAHAN"
      [] s = "Unnamed: 0" -> "UNNAMED: 0"
      [] s = "Jumlah Saham" -> "JUMLAH SAHAM"
      [] s = "Kepemilikan Per 15-DEC-2025" -> "KEPEMILIKAN PER 15-DEC-2025"
      [] s = "Kepemilikan Per 16-DEC-2025" -> "KEPEMILIKAN PER 16-DEC-2025"
      [] s = "Kepe9m 17-dec-2025 x" -> "KEPE9M 17-DEC-2025 X"
      [] s = "Per 18-DEC-2025\nJumlah Saham" -> "PER 18-DEC-2025\nJUMLAH SAHAM"
      [] s = "addr" -> "ADDR"
      [] s = "abc" -> "ABC"
      [] OTHER -> s

\* re.search(r"(\d{1,2}-[A-Z]{3}-\d{4})", s): group(1), or "" for no match
RegexDate(s) ==
    CASE s \in {"Kepemilikan Per 15-DEC-2025", "KEPEMILIKAN PER 15-DEC-2025"}
           -> "15-DEC-2025"
      [] s \in {"Kepemilikan Per 16-DEC-2025", "KEPEMILIKAN PER 16-DEC-2025"}
           -> "16-DEC-2025"
      [] s = "KEPE9M 17-DEC-2025 X" -> "17-DEC-2025"
      [] s \in {"Per 18-DEC-2025\nJumlah Saham", "PER 18-DEC-2025\nJUMLAH SAHAM"}
           -> "18-DEC-2025"
      [] OTHER -> ""

\* The dates the regex can return on this alphabet.
Dates == {"15-DEC-2025", "16-DEC-2025", "17-DEC-2025", "18-DEC-2025"}

\* str.replace(",", "")
NoComma(s) ==
    CASE s = "1,000" -> "1000"
      [] s = "," -> ""
      [] OTHER -> s

\* str.replace("%", "")
NoPct(s) ==
    CASE s = "5.00%" -> "5.00"
      [] s = "6.00%" -> "6.00"
      [] OTHER -> s

\* The strings pd.to_numeric parses, and their value in hundredths.
Parses(s) == s \in {"0", "1", "2", "3", "1000", "5.00", "6.00", "-5"}
ParseNum(s) ==
    CASE s = "0" -> 0
      [] s = "1" -> 100
      [] s = "2" -> 200
      [] s = "3" -> 300
      [] s = "1000" -> 100000
      [] s = "5.00" -> 500
      [] s = "6.00" -> 600
      [] s = "-5" -> -500
      [] OTHER -> 0

(***************************************************************************)
(* Column names.                                                           *)
(***************************************************************************)
JumlahName(d) == "Kepemilikan Per " \o d \o " - Jumlah Saham"
GabunganName(d) == "Kepemilikan Per " \o d \o " - Saham Gabungan Per Investor"
PersentaseName(d) ==
    "Kepemilikan Per " \o d \o " - Persentase Kepemilikan Per Investor (%)"

\* The three columns emitted for one date group.
DateTriple(d) == <<JumlahName(d), GabunganName(d), PersentaseName(d)>>

\* "Persentase Kepemilikan Per Investor" in c
IsPercCol(c) == \E d \in Dates : c = PersentaseName(d)

\* "Unnamed" in c
IsUnnamed(c) == c = "Unnamed: 0"

DropList == {"Alamat", "Alamat (Lanjutan)", "Domisili"}
cols_to_fill == <<"No", "Nama Emiten", "Nama Pemegang Saham", "Kebangsaan">>

(***************************************************************************)
(* Header reconstruction: one iteration of the while loop.                 *)
(***************************************************************************)
\* raw_h = str(header[i] or "").strip()
RawH(cell) == Strip(OrEmpty(cell))

\* h: the last line of a multi-line cell
NormH(cell) == IF HasNewline(RawH(cell)) THEN LastLine(RawH(cell)) ELSE RawH(cell)

\* m: the date searched in h.upper(), then in raw_h.upper()
DateOf(cell) ==
    IF RegexDate(Upper(NormH(cell))) # ""
    THEN RegexDate(Upper(NormH(cell)))
    ELSE RegexDate(Upper(RawH(cell)))

\* not (header[j] or "").strip()
IsBlank(cell) == Strip(OrEmpty(cell)) = ""

\* (variant: every date label taken for a merged cell)
SkipMerged(hdr, i) == 1

\* (variant: three cells when the next two are empty, one cell otherwise)
SkipOneOrThree(hdr, i) ==
    IF i + 2 < Len(hdr) /\ IsBlank(hdr[i + 2]) /\ IsBlank(hdr[i + 3]) THEN 3 ELSE 1

\* (variant: three cells whatever follows the date label)
SkipThree(hdr, i) == 3

\* skip: the raw cells a date group consumes at 0-based position i
Skip(hdr, i) ==
    IF i + 1 < Len(hdr) /\ IsBlank(hdr[i + 2])
    THEN IF i + 2 < Len(hdr) /\ IsBlank(hdr[i + 3]) THEN 3 ELSE 2
    ELSE 1

\* (variant: an empty cell outside a date group kept as an unnamed column)
EmitKeepsBlank(cell) ==
    IF DateOf(cell) # "" THEN DateTriple(DateOf(cell))
    ELSE IF NormH(cell) # "" THEN <<NormH(cell)>>
    ELSE <<"Unnamed: 0">>

\* what one cell adds to final_header
Emit(cell) ==
    IF DateOf(cell) # "" THEN DateTriple(DateOf(cell))
    ELSE IF NormH(cell) # "" THEN <<NormH(cell)>>
    ELSE <<>>

\* the increment of i
Advance(hdr, i) == IF DateOf(hdr[i + 1]) # "" THEN Skip(hdr, i) ELSE 1

(***************************************************************************)
(* pandas.  A DataFrame is [cols, rows]; a row keeps its index label idx   *)
(* (its 0-based position in all_rows) through every filter.                *)
(***************************************************************************)
Range(n) == [j \in 1..n |-> j]

MaxRowLen(rows) ==
    IF rows = <<>> THEN 0
    ELSE CHOOSE m \in {Len(rows[r]) : r \in 1..Len(rows)} :
             \A r \in 1..Len(rows) : Len(rows[r]) <= m

\* lib.to_object_array: a shorter row is filled up with None
Pad(row, width) == [j \in 1..width |-> IF j <= Len(row) THEN row[j] ELSE None]

\* pd.DataFrame(rows, columns=cols) raises ValueError unless the longest row
\* has len(cols) cells (an empty list of rows gives an empty frame)
CanBuild(rows, cols) == rows = <<>> \/ MaxRowLen(rows) = Len(cols)

DataFrame(rows, cols) ==
    [cols |-> cols,
     rows |-> [r \in 1..Len(rows) |->
                  [idx |-> r - 1, cells |-> Pad(rows[r], Len(cols))]]]

EmptyFrame == [cols |-> <<>>, rows |-> <<>>]

HasCol(d, name) == \E j \in 1..Len(d.cols) : d.cols[j] = name
ColPos(d, name) == CHOOSE j \in 1..Len(d.cols) : d.cols[j] = name

\* df.empty
IsEmpty(d) == d.rows = <<>> \/ d.cols = <<>>

\* if "No" in df.columns: df = df[df["No"] != "No"]
DropHeaderRows(d) ==
    IF HasCol(d, "No")
    THEN LET Keep(r) == r.cells[ColPos(d, "No")] # Str("No")
         IN  [d EXCEPT !.rows = SelectSeq(d.rows, Keep)]
    ELSE d

\* Series.ffill() on column position j: a missing value takes the nearest
\* preceding non-missing value of the column, a leading one stays missing
FfillAt(rows, j) ==
    [r \in 1..Len(rows) |->
        IF isna(rows[r].cells[j])
        THEN LET prior == {q \in 1..(r - 1) : ~isna(rows[q].cells[j])}
             IN  IF prior = {} THEN rows[r]
                 ELSE LET q == CHOOSE x \in prior : \A y \in prior : y <= x
                      IN  [rows[r] EXCEPT !.cells[j] = rows[q].cells[j]]
        ELSE rows[r]]

\* (variant: the forward-fill left out)
ffillSkipped(d, name) == d

\* (variant: a missing value takes the value of the row right above, as it was
\* before the fill)
ffillOneStep(d, name) ==
    IF HasCol(d, name)
    THEN LET j == ColPos(d, name)
         IN  [d EXCEPT !.rows = [r \in 1..Len(d.rows) |->
                 IF r > 1 /\ isna(d.rows[r].cells[j])
                 THEN [d.rows[r] EXCEPT !.cells[j] = d.rows[r - 1].cells[j]]
                 ELSE d.rows[r]]]
    ELSE d

\* if col in df.columns: df[col] = df[col].ffill()
ffill(d, name) ==
    IF HasCol(d, name)
    THEN [d EXCEPT !.rows = FfillAt(d.rows, ColPos(d, name))]
    ELSE d

\* the forward-fill of "No", then of the other cols_to_fill
FillColumns(d) ==
    ffill(ffill(ffill(ffill(d, cols_to_fill[1]), cols_to_fill[2]),
                cols_to_fill[3]), cols_to_fill[4])

\* the frame restricted to the column positions in keep (a sequence)
TakeCols(d, keep) ==
    [cols |-> [k \in 1..Len(keep) |-> d.cols[keep[k]]],
     rows |-> [r \in 1..Len(d.rows) |->
                  [d.rows[r] EXCEPT
                      !.cells = [k \in 1..Len(keep) |-> d.rows[r].cells[keep[k]]]]]]

\* df.drop(columns=[col]) for Alamat, Alamat (Lanjutan), Domisili
DropAddressCols(d) ==
    LET Keep(j) == d.cols[j] \notin DropList
    IN  TakeCols(d, SelectSeq(Range(Len(d.cols)), Keep))

\* df.drop(columns=[c for c in df.columns if "Unnamed" in c])
DropUnnamedCols(d) ==
    LET Keep(j) == ~IsUnnamed(d.cols[j])
    IN  TakeCols(d, SelectSeq(Range(Len(d.cols)), Keep))

\* Series.astype(str)
AsType_str(v) ==
    CASE v.k = "None" -> "None"
      [] v.k = "nan" -> "nan"
      [] OTHER -> v.s

\* .astype(str).str.strip().replace(["None","none",""], nan)
\*  .str.replace(",", "").str.replace("%", "")
CleanCell(v) ==
    LET s == Strip(AsType_str(v))
    IN  IF s \in {"None", "none", ""} THEN NaN ELSE Str(NoPct(NoComma(s)))

\* for col in df.columns: df[col] = cleaned df[col]
CleanStrings(d) ==
    [d EXCEPT !.rows = [r \in 1..Len(d.rows) |->
        [d.rows[r] EXCEPT
            !.cells = [j \in 1..Len(d.cols) |-> CleanCell(d.rows[r].cells[j])]]]]

\* (variant: errors="coerce" without the fillna(0))
to_numericNoFill(v) ==
    IF v.k = "num" THEN v
    ELSE IF v.k = "str" /\ Parses(v.s) THEN Num(ParseNum(v.s))
    ELSE NaN

\* pd.to_numeric(x, errors="coerce") followed by fillna(0)
to_numeric(v) ==
    IF v.k = "num" THEN v
    ELSE IF v.k = "str" /\ Parses(v.s) THEN Num(ParseNum(v.s))
    ELSE Num(0)

\* numeric_indices = range(len(df.columns) - 7, len(df.columns))
NumericWindow == 7
numeric_indices(ncols) == (ncols - NumericWindow)..(ncols - 1)

\* df.columns[idx] raises IndexError when idx < -len(df.columns)
IndexInRange(idx, ncols) == -ncols <= idx /\ idx < ncols

\* the 1-based column position Python's df.columns[idx] denotes
PyPos(idx, ncols) == IF idx >= 0 THEN idx + 1 ELSE ncols + idx + 1

ConvertAt(d, positions) ==
    [d EXCEPT !.rows = [r \in 1..Len(d.rows) |->
        [d.rows[r] EXCEPT !.cells = [j \in 1..Len(d.cols) |->
            IF j \in positions THEN to_numeric(d.rows[r].cells[j])
            ELSE d.rows[r].cells[j]]]]]

ConvertNumeric(d) ==
    ConvertAt(d, {PyPos(idx, Len(d.cols)) : idx \in numeric_indices(Len(d.cols))})

\* perc_cols = [c for c in df.columns if "Persentase Kepemilikan Per Investor" in c]
PercCols(d) == SelectSeq(d.cols, IsPercCol)

\* perc_cols[-2], perc_cols[-1]: IndexError with fewer than two
CanPick(perc) == Len(perc) >= 2
PrevOf(perc) == perc[Len(perc) - 1]
CurrOf(perc) == perc[Len(perc)]

\* df.replace(["", None, "None"], np.nan)
ReplaceMissing(v) == IF v \in {Str(""), None, Str("None")} THEN NaN ELSE v
ReplaceAll(d) ==
    [d EXCEPT !.rows = [r \in 1..Len(d.rows) |->
        [d.rows[r] EXCEPT
            !.cells = [j \in 1..Len(d.cols) |-> ReplaceMissing(d.rows[r].cells[j])]]]]

\* df.dropna(how="all")
dropna_all(d) ==
    LET Keep(r) == \E j \in 1..Len(d.cols) : ~isna(r.cells[j])
    IN  [d EXCEPT !.rows = SelectSeq(d.rows, Keep)]

(***************************************************************************)
(* Documents.  A page is the table extract_table() returns: a sequence of  *)
(* rows of cells, or <<>> when it returns None or an empty list.           *)
(***************************************************************************)
MaxRows == 3        \* data rows of a one-table document
MaxPageRows == 1    \* data rows per page of a two-table document
MaxHeaderLen == 4   \* raw header cells of a free-form header

SeqsUpTo(S, n) == UNION {[1..m -> S] : m \in 0..n}

NoTable == <<>>
Cover == NoTable

\* The usual first header row: two date groups of three raw cells each.
StdHeader ==
    <<Str("No"), Str("Nama Emiten"), Str("Alamat"), Str("Nama Pemegang Saham"),
      Str("Kebangsaan"), Str("Kepemilikan Per 15-DEC-2025"), None, None,
      Str("Kepemilikan Per 16-DEC-2025"), None, None, Str("Perubahan")>>

\* The same header with text of the previous page merged into the first cell
\* and a garbled, lower-case first date label.
GarbledHeader ==
    <<Str("1766\nNo"), Str("Nama Emiten"), Str("Alamat"), Str("Nama Pemegang Saham"),
      Str("Kebangsaan"), Str("Kepe9m 17-dec-2025 x"), None, None,
      Str("Kepemilikan Per 16-DEC-2025"), None, None, Str("Perubahan")>>

\* A header of a table one column narrower (no "Perubahan").
NarrowHeader == SubSeq(StdHeader, 1, 11)

\* The second header row (never read: data = table[2:]).
SubHeader ==
    <<None, None, None, None, None, Str("Jumlah Saham"), None, None,
      Str("Jumlah Saham"), None, None, None>>

Row(no, emiten, holder, nat, p1, p2, per) ==
    <<no, emiten, Str("addr"), holder, nat, Str("1,000"), Str("1,000"), p1,
      Str("1,000"), Str("1,000"), p2, per>>

RowA == Row(Str("1"), Str("AAAA"), Str("H1"), Str("ID"), Str("5.00%"), Str("5.00%"), Str("0"))
RowB == Row(Str("2"), Str("BBBB"), Str("H2"), Str("ID"), Str("5.00%"), Str("6.00%"), Str("-5"))
\* a further holder of the issuer above: the grouping cells are missing
RowCont == Row(None, None, Str("H3"), None, Str("5.00%"), Str("6.00%"), Str("1,000"))
\* grouping cells that are empty or blank text, numeric cells that do not parse
RowBlank == Row(Str(""), Str(" "), Str("H4"), Str("none"), Str("abc"), None, Str(","))
\* the header repeated as a data row, exactly and with a leading blank
RowHeader == StdHeader
RowHeaderWs == [StdHeader EXCEPT ![1] = Str(" No")]
RowEmpty == [j \in 1..12 |-> None]
RowShort == SubSeq(RowA, 1, 11)
RowLong == RowB \o <<Str("abc")>>
RowC == Row(Str("3"), Str(" AAAA "), Str("H1"), Str("ID"), Str("6.00%"), Str("5.00%"), Str("abc"))

\* the first row of the next issuer, its issuer and nationality cells left empty
RowNewGroup == Row(Str("3"), None, Str("H5"), None, Str("5.00%"), Str("5.00%"), Str("0"))

RowPool ==
    {RowA, RowB, RowCont, RowBlank, RowHeader, RowHeaderWs, RowEmpty, RowShort,
     RowLong, RowC, RowNewGroup}

PageRowPool == {RowA, RowCont, RowHeaderWs}

Table(hdr, rows) == <<hdr, SubSeq(SubHeader, 1, Len(hdr))>> \o rows

\* one table page after the cover, up to MaxRows data rows
OneTableDocs == {<<Cover, Table(StdHeader, rows)>> : rows \in SeqsUpTo(RowPool, MaxRows)}

\* the pages a two-page body is made of; a table's rows have its header's width,
\* RowB as first row is a page whose header row is missing
BodyPages ==
    {NoTable, <<StdHeader>>}
    \cup {Table(h, rows) : h \in {StdHeader, GarbledHeader, RowB},
                           rows \in SeqsUpTo(PageRowPool, MaxPageRows)}
    \cup {Table(NarrowHeader, rows) : rows \in SeqsUpTo({RowShort}, MaxPageRows)}

TwoPageDocs == {<<Cover, p2, p3>> : p2 \in BodyPages, p3 \in BodyPages}

HeaderCellPool ==
    {None, Str(" "), Str("1766\nNo"), Str("Perubahan"),
     Str("Kepemilikan Per 15-DEC-2025"), Str("Kepe9m 17-dec-2025 x"),
     Str("Per 18-DEC-2025\nJumlah Saham")}

\* free-form headers whose labels are pairwise different
FreeHeaders ==
    {h \in SeqsUpTo(HeaderCellPool, MaxHeaderLen) :
        /\ Len(h) >= 1
        /\ \A a, b \in 1..Len(h) : (a < b /\ h[a] = h[b]) => IsBlank(h[a])}

\* the header row of a disclosure with a single date group
ExampleHeader ==
    <<Str("No"), Str("Nama Emiten"), Str("Kepemilikan Per 15-DEC-2025"), None, None>>

HeaderDocs == {<<Cover, <<h>>>> : h \in FreeHeaders \cup {ExampleHeader}}

\* tables of three and of five columns with one data row
TinyHeader == <<Str("No"), Str("Nama Emiten"), Str("Perubahan")>>
TinyRow == <<Str("1"), Str("AAAA"), Str("0")>>
ExampleRow == <<Str("1"), Str("AAAA"), Str("1,000"), Str("1,000"), Str("5.00%")>>
SmallDocs ==
    {<<Cover, <<TinyHeader, TinyHeader, TinyRow>>>>,
     <<Cover, <<ExampleHeader, ExampleHeader, ExampleRow>>>>}

Docs == OneTableDocs \cup TwoPageDocs \cup HeaderDocs \cup SmallDocs \cup {<<Cover>>}

\* an entry of fetch_results: the attachment's name and its pages
Fetched(name, doc) == [fileName |-> name, pages |-> doc]

DocGood == <<Cover, Table(StdHeader, <<RowA>>)>>
DocNoRows == <<Cover, Table(StdHeader, <<>>)>>
DocCoverOnly == <<Cover>>
DocMismatch == <<Cover, Table(StdHeader, <<RowLong>>)>>
DocFewPerc == <<Cover, <<TinyHeader, TinyHeader, TinyRow>>>>
RunPool == {DocGood, DocNoRows, DocCoverOnly, DocMismatch, DocFewPerc}

\* what fetch_idx_pdf returned: one document, or two of one announcement date
Runs ==
    {<<Fetched("A_lamp", d)>> : d \in Docs}
    \cup {<<Fetched("A_lamp", d1), Fetched("B_lamp", d2)>> : d1, d2 \in RunPool}

(***************************************************************************)
(* Dates.  A datetime is its day number counted from 1 December 2024, a     *)
(* Sunday; the text "YYYYMMDD" that strftime gives is kept as the number    *)
(* with these digits.                                                       *)
(***************************************************************************)
MaxDay == 120       \* the last day number get_target_date is run on

\* the months from December 2024 on: year, month, number of days
Months ==
    <<[y |-> 2024, m |-> 12, n |-> 31], [y |-> 2025, m |-> 1, n |-> 31],
      [y |-> 2025, m |-> 2, n |-> 28], [y |-> 2025, m |-> 3, n |-> 31],
      [y |-> 2025, m |-> 4, n |-> 30]>>

\* the calendar date of day number n, looked up from month k on
RECURSIVE DateFrom(_, _)
DateFrom(n, k) ==
    IF n < Months[k].n
    THEN [y |-> Months[k].y, m |-> Months[k].m, d |-> n + 1]
    ELSE DateFrom(n - Months[k].n, k + 1)

fromordinal(n) == DateFrom(n, 1)

\* datetime.weekday(): Monday is 0, Sunday is 6
weekday(n) == (n + 6) % 7

\* strftime("%Y%m%d")
strftime(n) ==
    LET dt == fromordinal(n)
    IN  dt.y * 10000 + dt.m * 100 + dt.d

\* main.py get_target_date, today being day number n
get_target_date(n) ==
    IF weekday(n) = 0 THEN strftime(n - 3)
    ELSE IF weekday(n) = 6 THEN strftime(n - 2)
    ELSE strftime(n - 1)

\* etl_main.py get_target_date
etl_main_get_target_date(n) ==
    IF weekday(n) = 0 THEN strftime(n - 3) ELSE strftime(n - 1)

(***************************************************************************)
(* State.                                                                  *)
(***************************************************************************)
VARIABLES
    pages,          \* the document: extract_table() of each page
    pc,             \* position in parse_shareholder_pdf / run_etl
    page_idx,       \* 1-based page the for loop is at (the loop starts at 2)
    header,         \* table[0] of the current page
    data,           \* table[2:] of the current page
    i,              \* index of the while loop (0-based, as in the code)
    final_header,   \* the column names built by the while loop
    bound,          \* whether the local final_header has been assigned
    all_rows,       \* accumulated raw data rows
    df,             \* the DataFrame
    prev_col,       \* perc_cols[-2]
    curr_col,       \* perc_cols[-1]
    exc,            \* the exception parse_shareholder_pdf raised, "" if none
    diag,           \* the [ERROR] line printed when DataFrame creation fails
    ret,            \* the value returned, as a tuple of DataFrames
    etl,            \* what run_etl did with the document just parsed
    fetch_results,  \* run_etl: the documents fetch_idx_pdf returned
    doc_idx,        \* run_etl: 1-based position of the for loop in fetch_results
    written,        \* run_etl: the files save_or_upload wrote, in order
    summary_msgs,   \* run_etl: (fileName, rows) of every document stored
    saves,          \* run_etl: what each call of save_or_upload did, in order
    bf,             \* run_backfill and its worker pool
    td,             \* get_target_date
    sl              \* fetch_stock_list and the step of run_etl that stores its list

runVars == <<fetch_results, doc_idx, written, summary_msgs, saves>>
others == <<bf, td, sl>>

vars ==
    <<pages, pc, page_idx, header, data, i, final_header, bound, all_rows, df,
      prev_col, curr_col, exc, diag, ret, etl, runVars, others>>

\* the locals of parse_shareholder_pdf and what it hands to run_etl
parserVars ==
    <<pages, pc, page_idx, header, data, i, final_header, bound, all_rows, df,
      prev_col, curr_col, exc, diag, ret, etl>>

NoBackfill ==
    [phase |-> "off", start_date |-> 0, end_date |-> 0, max_workers |-> 0,
     start |-> 0, end |-> 0, current |-> 0, date_list |-> <<>>, queue |-> 0,
     worker |-> <<>>, future |-> <<>>, writes |-> {}]
NoTarget == [phase |-> "off", today |-> 0, result |-> 0]
NoStockList ==
    [phase |-> "off", records |-> 0, all_profiles |-> <<>>, indexFrom |-> 0,
     start |-> 0, total_records |-> 0, requests |-> 0, failed |-> FALSE,
     raised |-> FALSE, saved |-> FALSE]
NoDiag == [printed |-> FALSE, header_len |-> 0, first_row_len |-> 0]
NoEtl == [kind |-> "", msg |-> "", stored |-> FALSE, summary |-> <<>>]

Init ==
    /\ fetch_results \in Runs
    /\ doc_idx = 1
    /\ written = <<>>
    /\ summary_msgs = <<>>
    /\ saves = <<>>
    /\ bf = NoBackfill
    /\ td = NoTarget
    /\ sl = NoStockList
    /\ pages = fetch_results[1].pages
    /\ pc = "page"
    /\ page_idx = 2
    /\ header = <<>>
    /\ data = <<>>
    /\ i = 0
    /\ final_header = <<>>
    /\ bound = FALSE
    /\ all_rows = <<>>
    /\ df = EmptyFrame
    /\ prev_col = ""
    /\ curr_col = ""
    /\ exc = ""
    /\ diag = NoDiag
    /\ ret = <<>>
    /\ etl = NoEtl

(***************************************************************************)
(* parse_shareholder_pdf: the loop over pdf.pages[1:].                     *)
(***************************************************************************)
\* (variant: the loop left at the first page without a table)
SkipPageBreaks ==
    /\ pc = "page"
    /\ page_idx <= Len(pages)
    /\ pages[page_idx] = NoTable
    /\ page_idx' = Len(pages) + 1
    /\ UNCHANGED <<pages, pc, header, data, i, final_header, bound, all_rows, df,
                   prev_col, curr_col, exc, diag, ret, etl, runVars, others>>

\* if not table: continue
SkipPage ==
    /\ pc = "page"
    /\ page_idx <= Len(pages)
    /\ pages[page_idx] = NoTable
    /\ page_idx' = page_idx + 1
    /\ UNCHANGED <<pages, pc, header, data, i, final_header, bound, all_rows, df,
                   prev_col, curr_col, exc, diag, ret, etl, runVars, others>>

\* header = table[0]; data = table[2:]; final_header = []; i = 0
StartPage ==
    /\ pc = "page"
    /\ page_idx <= Len(pages)
    /\ pages[page_idx] # NoTable
    /\ LET table == pages[page_idx]
       IN  /\ header' = table[1]
           /\ data' = IF Len(table) > 2 THEN SubSeq(table, 3, Len(table)) ELSE <<>>
    /\ final_header' = <<>>
    /\ bound' = TRUE
    /\ i' = 0
    /\ pc' = "header"
    /\ UNCHANGED <<pages, page_idx, all_rows, df, prev_col, curr_col, exc, diag,
                   ret, etl, runVars, others>>

\* one iteration of: while i < len(header)
HeaderStep ==
    /\ pc = "header"
    /\ i < Len(header)
    /\ final_header' = final_header \o Emit(header[i + 1])
    /\ i' = i + Advance(header, i)
    /\ UNCHANGED <<pages, pc, page_idx, header, data, bound, all_rows, df,
                   prev_col, curr_col, exc, diag, ret, etl, runVars, others>>

\* all_rows.extend(data), and on to the next page
ExtendRows ==
    /\ pc = "header"
    /\ i >= Len(header)
    /\ all_rows' = all_rows \o data
    /\ page_idx' = page_idx + 1
    /\ pc' = "page"
    /\ UNCHANGED <<pages, header, data, i, final_header, bound, df, prev_col,
                   curr_col, exc, diag, ret, etl, runVars, others>>

(***************************************************************************)
(* parse_shareholder_pdf: after the loop.                                  *)
(***************************************************************************)
\* df = pd.DataFrame(all_rows, columns=final_header)
CreateDataFrame ==
    /\ pc = "page"
    /\ page_idx > Len(pages)
    /\ IF ~bound
       THEN \* final_header was never assigned: UnboundLocalError, not caught
            /\ exc' = "UnboundLocalError"
            /\ pc' = "raised"
            /\ UNCHANGED <<df, diag>>
       ELSE IF ~CanBuild(all_rows, final_header)
       THEN \* except ValueError: print and re-raise
            /\ exc' = "ValueError"
            /\ pc' = "raised"
            /\ diag' = [printed |-> TRUE, header_len |-> Len(final_header),
                        first_row_len |-> Len(all_rows[1])]
            /\ UNCHANGED df
       ELSE /\ df' = DataFrame(all_rows, final_header)
            /\ pc' = "fill"
            /\ UNCHANGED <<exc, diag>>
    /\ UNCHANGED <<pages, page_idx, header, data, i, final_header, bound,
                   all_rows, prev_col, curr_col, ret, etl, runVars, others>>

\* drop the header rows, forward-fill cols_to_fill
DropAndFill ==
    /\ pc = "fill"
    /\ df' = FillColumns(DropHeaderRows(df))
    /\ pc' = "drop_cols"
    /\ UNCHANGED <<pages, page_idx, header, data, i, final_header, bound,
                   all_rows, prev_col, curr_col, exc, diag, ret, etl, runVars, others>>

\* drop Alamat, Alamat (Lanjutan), Domisili
DropColumns ==
    /\ pc = "drop_cols"
    /\ df' = DropAddressCols(df)
    /\ pc' = "clean"
    /\ UNCHANGED <<pages, page_idx, header, data, i, final_header, bound,
                   all_rows, prev_col, curr_col, exc, diag, ret, etl, runVars, others>>

\* clean string data, every column
CleanStringData ==
    /\ pc = "clean"
    /\ df' = CleanStrings(df)
    /\ pc' = "numeric"
    /\ UNCHANGED <<pages, page_idx, header, data, i, final_header, bound,
                   all_rows, prev_col, curr_col, exc, diag, ret, etl, runVars, others>>

\* convert the last 7 columns by index, unless the frame is empty
ConvertNumericColumns ==
    /\ pc = "numeric"
    /\ IF IsEmpty(df)
       THEN /\ pc' = "perc"
            /\ UNCHANGED <<df, exc>>
       ELSE IF \E idx \in numeric_indices(Len(df.cols)) : ~IndexInRange(idx, Len(df.cols))
       THEN /\ exc' = "IndexError"
            /\ pc' = "raised"
            /\ UNCHANGED df
       ELSE /\ df' = ConvertNumeric(df)
            /\ pc' = "perc"
            /\ UNCHANGED exc
    /\ UNCHANGED <<pages, page_idx, header, data, i, final_header, bound,
                   all_rows, prev_col, curr_col, diag, ret, etl, runVars, others>>

\* prev_col, curr_col = perc_cols[-2], perc_cols[-1], both made numeric
SelectPercentageColumns ==
    /\ pc = "perc"
    /\ IF ~CanPick(PercCols(df))
       THEN /\ exc' = "IndexError"
            /\ pc' = "raised"
            /\ UNCHANGED <<df, prev_col, curr_col>>
       ELSE /\ prev_col' = PrevOf(PercCols(df))
            /\ curr_col' = CurrOf(PercCols(df))
            /\ df' = ConvertAt(df, {ColPos(df, PrevOf(PercCols(df))),
                                    ColPos(df, CurrOf(PercCols(df)))})
            /\ pc' = "unnamed"
            /\ UNCHANGED exc
    /\ UNCHANGED <<pages, page_idx, header, data, i, final_header, bound,
                   all_rows, diag, ret, etl, runVars, others>>

\* drop the "Unnamed" columns
DropUnnamed ==
    /\ pc = "unnamed"
    /\ df' = DropUnnamedCols(df)
    /\ pc' = "dropna"
    /\ UNCHANGED <<pages, page_idx, header, data, i, final_header, bound,
                   all_rows, prev_col, curr_col, exc, diag, ret, etl, runVars, others>>

\* df.replace(["", None, "None"], np.nan); df.dropna(how="all")
DropEmptyRows ==
    /\ pc = "dropna"
    /\ df' = dropna_all(ReplaceAll(df))
    /\ pc' = "refill"
    /\ UNCHANGED <<pages, page_idx, header, data, i, final_header, bound,
                   all_rows, prev_col, curr_col, exc, diag, ret, etl, runVars, others>>

\* drop the header rows and forward-fill again, then return df
FinalFillAndReturn ==
    /\ pc = "refill"
    /\ df' = FillColumns(DropHeaderRows(df))
    /\ ret' = <<FillColumns(DropHeaderRows(df))>>
    /\ pc' = "done"
    /\ UNCHANGED <<pages, page_idx, header, data, i, final_header, bound,
                   all_rows, prev_col, curr_col, exc, diag, etl, runVars, others>>

(***************************************************************************)
(* run_etl, for the document parsed above.                                 *)
(***************************************************************************)
\* (variant: every exception answered with the "No data found" string)
EtlOutcomeAllReturned(e, r) ==
    IF e # ""
    THEN [kind |-> "return", msg |-> "No data found", stored |-> FALSE, summary |-> <<>>]
    ELSE IF IsEmpty(r[1])
    THEN [kind |-> "return", msg |-> "Success", stored |-> FALSE, summary |-> <<>>]
    ELSE [kind |-> "return", msg |-> "Success", stored |-> TRUE,
          summary |-> <<Len(r[1].rows)>>]

\* what run_etl does with the outcome of parse_shareholder_pdf
EtlOutcome(e, r) ==
    IF e = "ValueError"
    THEN [kind |-> "return", msg |-> "No data found", stored |-> FALSE, summary |-> <<>>]
    ELSE IF e # ""
    THEN [kind |-> "raise", msg |-> "RuntimeError", stored |-> FALSE, summary |-> <<>>]
    ELSE IF IsEmpty(r[1])
    THEN [kind |-> "return", msg |-> "Success", stored |-> FALSE, summary |-> <<>>]
    ELSE [kind |-> "return", msg |-> "Success", stored |-> TRUE,
          summary |-> <<Len(r[1].rows)>>]

\* base_filename + "_full.csv"
csv_full(name) == name \o "_full.csv"
stock_filename == "idx_stock_list.json"

\* how the call of upload_to_gcs inside save_or_upload can end: "none" when
\* GCS_AVAILABLE is false or no bucket is configured (no call), "ok" and
\* "failed" for the True and False that upload_to_gcs returns, "raised" for
\* the TypeError of a call with project_id= on an upload_to_gcs whose
\* signature has no such parameter
UploadOutcomes == {"none", "ok", "failed", "raised"}

\* upload_to_gcs: True when the blob was uploaded, False on any exception
upload_to_gcs(up) == up = "ok"

\* save_or_upload: the local write is tried first and its failure is only
\* warned about; the value returned is that of upload_to_gcs when it is
\* called, True otherwise
save_or_upload(file, local_ok, up) ==
    [file |-> file, local |-> local_ok, upload |-> up,
     raised |-> up = "raised",
     result |-> IF up = "none" THEN TRUE ELSE upload_to_gcs(up)]

\* the except Exception clause of run_etl, for an exception of save_or_upload
SaveRaised == [kind |-> "raise", msg |-> "RuntimeError", stored |-> FALSE, summary |-> <<>>]

\* one turn of the for loop over fetch_results, from the return of
\* parse_shareholder_pdf on: an exception leaves the loop and ends run_etl, an
\* empty frame goes on to the next document, any other frame is handed to
\* save_or_upload, whose return value is not looked at, and listed in
\* summary_msgs
RunEtl ==
    /\ pc \in {"done", "raised"}
    /\ \E local_ok \in BOOLEAN, up \in UploadOutcomes :
         LET o == EtlOutcome(exc, ret)
             name == fetch_results[doc_idx].fileName
             s == save_or_upload(csv_full(name), local_ok, up)
         IN  IF o.kind = "return" /\ o.msg = "Success" /\ ~(o.stored /\ s.raised)
             THEN /\ etl' = o
                  /\ written' = IF o.stored /\ s.local
                                THEN Append(written, csv_full(name))
                                ELSE written
                  /\ saves' = IF o.stored THEN Append(saves, s) ELSE saves
                  /\ summary_msgs' = IF o.stored
                                     THEN Append(summary_msgs, <<name>> \o o.summary)
                                     ELSE summary_msgs
                  /\ IF doc_idx < Len(fetch_results)
                     THEN /\ doc_idx' = doc_idx + 1
                          /\ pages' = fetch_results[doc_idx + 1].pages
                          /\ pc' = "page"
                          /\ page_idx' = 2
                          /\ header' = <<>>
                          /\ data' = <<>>
                          /\ i' = 0
                          /\ final_header' = <<>>
                          /\ bound' = FALSE
                          /\ all_rows' = <<>>
                          /\ df' = EmptyFrame
                          /\ prev_col' = ""
                          /\ curr_col' = ""
                          /\ exc' = ""
                          /\ diag' = NoDiag
                          /\ ret' = <<>>
                     ELSE /\ pc' = "stock"
                          /\ UNCHANGED <<pages, page_idx, header, data, i,
                                         final_header, bound, all_rows, df,
                                         prev_col, curr_col, exc, diag, ret,
                                         doc_idx>>
             ELSE /\ etl' = IF o.kind = "return" /\ o.msg = "Success"
                            THEN SaveRaised ELSE o
                  /\ written' = IF o.kind = "return" /\ o.msg = "Success" /\ s.local
                                THEN Append(written, csv_full(name))
                                ELSE written
                  /\ saves' = IF o.kind = "return" /\ o.msg = "Success"
                              THEN Append(saves, s) ELSE saves
                  /\ pc' = "etl_done"
                  /\ UNCHANGED <<pages, page_idx, header, data, i, final_header,
                                 bound, all_rows, df, prev_col, curr_col, exc,
                                 diag, ret, doc_idx, summary_msgs>>
    /\ UNCHANGED <<fetch_results, others>>

\* after the loop: fetch_stock_list(), the stock list handed to save_or_upload
\* under its fixed name when there is one, and the "Success" string returned
StockList ==
    /\ pc = "stock"
    /\ \E have_list \in BOOLEAN, local_ok \in BOOLEAN, up \in UploadOutcomes :
         LET s == save_or_upload(stock_filename, local_ok, up)
         IN  /\ written' = IF have_list /\ s.local
                           THEN Append(written, stock_filename) ELSE written
             /\ saves' = IF have_list THEN Append(saves, s) ELSE saves
             /\ etl' = IF have_list /\ s.raised
                       THEN SaveRaised
                       ELSE [etl EXCEPT !.kind = "return", !.msg = "Success"]
    /\ pc' = "etl_done"
    /\ UNCHANGED <<pages, page_idx, header, data, i, final_header, bound,
                   all_rows, df, prev_col, curr_col, exc, diag, ret,
                   fetch_results, doc_idx, summary_msgs, others>>

\* idx_scraper_entry: the HTTP status answered for the way run_etl ended
idx_scraper_entry(o) == IF o.kind = "raise" THEN 500 ELSE 200

Next ==
    \/ SkipPage
    \/ StartPage
    \/ HeaderStep
    \/ ExtendRows
    \/ CreateDataFrame
    \/ DropAndFill
    \/ DropColumns
    \/ CleanStringData
    \/ ConvertNumericColumns
    \/ SelectPercentageColumns
    \/ DropUnnamed
    \/ DropEmptyRows
    \/ FinalFillAndReturn
    \/ RunEtl
    \/ StockList

Spec == Init /\ [][Next]_vars

(***************************************************************************)
(* get_target_date, run on every day of the calendar above.                *)
(***************************************************************************)
\* parse_shareholder_pdf and run_etl are not running
ParserOff ==
    /\ fetch_results = <<>>
    /\ doc_idx = 0
    /\ written = <<>>
    /\ summary_msgs = <<>>
    /\ saves = <<>>
    /\ pages = <<>>
    /\ pc = "off"
    /\ page_idx = 0
    /\ header = <<>>
    /\ data = <<>>
    /\ i = 0
    /\ final_header = <<>>
    /\ bound = FALSE
    /\ all_rows = <<>>
    /\ df = EmptyFrame
    /\ prev_col = ""
    /\ curr_col = ""
    /\ exc = ""
    /\ diag = NoDiag
    /\ ret = <<>>
    /\ etl = NoEtl

\* today = datetime.now(), on or after 4 December 2024
InitTargetDate ==
    /\ ParserOff
    /\ bf = NoBackfill
    /\ \E n \in 3..MaxDay : td = [phase |-> "start", today |-> n, result |-> 0]
    /\ sl = NoStockList

\* main.py: get_target_date()
GetTargetDate ==
    /\ td.phase = "start"
    /\ td' = [td EXCEPT !.phase = "main", !.result = get_target_date(td.today)]
    /\ UNCHANGED <<parserVars, runVars, bf, sl>>

\* etl_main.py: get_target_date()
EtlMainGetTargetDate ==
    /\ td.phase = "start"
    /\ td' = [td EXCEPT !.phase = "etl_main",
                        !.result = etl_main_get_target_date(td.today)]
    /\ UNCHANGED <<parserVars, runVars, bf, sl>>

NextTargetDate ==
    \/ GetTargetDate
    \/ EtlMainGetTargetDate

SpecTargetDate == InitTargetDate /\ [][NextTargetDate]_vars

(***************************************************************************)
(* run_backfill (test_runner.py): the list of dates, then process_date run *)
(* on each by the threads of a ThreadPoolExecutor.  run_etl is followed    *)
(* through the steps that end it or write a file; what the network and the *)
(* parser give it is an input of the step.  The attachment fetched for a   *)
(* date is named after that date.                                          *)
(***************************************************************************)
MaxSpan == 2        \* days from the earliest to the latest date of a backfill
MaxWorkers == 2     \* the largest max_workers

CalendarDays ==
    0..(Months[1].n + Months[2].n + Months[3].n + Months[4].n + Months[5].n - 1)

\* the days around the end of February 2025 a backfill may name
BackfillDays == 88..(88 + MaxSpan)

\* the start_date and end_date given: dates of the calendar, or 30 February
BackfillDates == {strftime(n) : n \in BackfillDays} \cup {20250230}

\* datetime.strptime(s, "%Y%m%d"): the day number, ValueError (-1) for no date
strptime(s) ==
    IF \E n \in CalendarDays : strftime(n) = s
    THEN CHOOSE n \in CalendarDays : strftime(n) = s
    ELSE -1

\* what parse_shareholder_pdf may hand to run_etl: its exception and its result
ParseOutcomes ==
    {[e |-> "", r |-> <<DataFrame(<<RowA>>, StdHeader)>>],
     [e |-> "", r |-> <<DataFrame(<<>>, StdHeader)>>],
     [e |-> "ValueError", r |-> <<>>],
     [e |-> "IndexError", r |-> <<>>]}

CsvFile(date) == [kind |-> "csv", key |-> date]
StockFile == [kind |-> "stock", key |-> 0]

IdleWorker == [task |-> 0, step |-> "idle", etl |-> NoEtl]
PendingFuture == [kind |-> "pending", value |-> "", runs |-> 0]

\* (variant: process_date without its try/except)
process_dateUncaught(o, runs) ==
    IF o.kind = "raise"
    THEN [kind |-> "exception", value |-> o.msg, runs |-> runs]
    ELSE [kind |-> "result", value |-> "Success", runs |-> runs]

\* process_date: what the task's future holds once run_etl has ended as o
process_date(o, runs) ==
    IF o.kind = "raise"
    THEN [kind |-> "result", value |-> "Failed", runs |-> runs]
    ELSE [kind |-> "result", value |-> "Success", runs |-> runs]

InitBackfill ==
    /\ ParserOff
    /\ td = NoTarget
    /\ sl = NoStockList
    /\ \E s, e \in BackfillDates : \E mw \in 1..MaxWorkers :
          bf = [NoBackfill EXCEPT !.phase = "start", !.start_date = s,
                                  !.end_date = e, !.max_workers = mw]

\* the two strptime calls; a ValueError prints and returns
ParseDates ==
    /\ bf.phase = "start"
    /\ IF strptime(bf.start_date) = -1 \/ strptime(bf.end_date) = -1
       THEN bf' = [bf EXCEPT !.phase = "returned"]
       ELSE bf' = [bf EXCEPT !.phase = "dates",
                             !.start = strptime(bf.start_date),
                             !.end = strptime(bf.end_date),
                             !.current = strptime(bf.start_date)]
    /\ UNCHANGED <<parserVars, runVars, td, sl>>

\* while current <= end: date_list.append(...); current += timedelta(days=1)
QueueDate ==
    /\ bf.phase = "dates"
    /\ bf.current <= bf.end
    /\ bf' = [bf EXCEPT !.date_list = Append(bf.date_list, strftime(bf.current)),
                        !.current = bf.current + 1]
    /\ UNCHANGED <<parserVars, runVars, td, sl>>

\* with ThreadPoolExecutor(max_workers) as executor: executor.map(...)
OpenPool ==
    /\ bf.phase = "dates"
    /\ bf.current > bf.end
    /\ bf' = [bf EXCEPT !.phase = "pool",
                        !.queue = 1,
                        !.worker = [w \in 1..bf.max_workers |-> IdleWorker],
                        !.future = [k \in 1..Len(bf.date_list) |-> PendingFuture]]
    /\ UNCHANGED <<parserVars, runVars, td, sl>>

\* a free thread takes the next date of the queue and calls process_date
TakeTask(w) ==
    /\ bf.phase = "pool"
    /\ bf.worker[w].step = "idle"
    /\ bf.queue <= Len(bf.date_list)
    /\ bf' = [bf EXCEPT !.worker[w] = [task |-> bf.queue, step |-> "fetch",
                                       etl |-> NoEtl],
                        !.future[bf.queue].runs = bf.future[bf.queue].runs + 1,
                        !.queue = bf.queue + 1]
    /\ UNCHANGED <<parserVars, runVars, td, sl>>

\* run_etl: fetch_idx_pdf raises ValueError (nothing announced), raises
\* RuntimeError (the request failed), or returns the date's attachment
Fetch(w) ==
    /\ bf.phase = "pool"
    /\ bf.worker[w].step = "fetch"
    /\ \E got \in {"ValueError", "RuntimeError", "results"} :
          bf' = [bf EXCEPT !.worker[w] =
                   IF got = "results"
                   THEN [bf.worker[w] EXCEPT !.step = "parse"]
                   ELSE [bf.worker[w] EXCEPT !.step = "end",
                                             !.etl = EtlOutcome(got, <<>>)]]
    /\ UNCHANGED <<parserVars, runVars, td, sl>>

\* run_etl: the attachment parsed and, unless empty, its CSV written
ParseAndStore(w) ==
    /\ bf.phase = "pool"
    /\ bf.worker[w].step = "parse"
    /\ \E po \in ParseOutcomes :
          LET o == EtlOutcome(po.e, po.r)
              date == bf.date_list[bf.worker[w].task]
          IN  IF o.kind = "return" /\ o.msg = "Success"
              THEN bf' = [bf EXCEPT
                            !.worker[w] = [bf.worker[w] EXCEPT !.step = "stock",
                                                               !.etl = o],
                            !.writes = IF o.stored
                                       THEN bf.writes \cup
                                              {[file |-> CsvFile(date),
                                                task |-> bf.worker[w].task,
                                       thread |-> w]}
                                       ELSE bf.writes]
              ELSE bf' = [bf EXCEPT
                            !.worker[w] = [bf.worker[w] EXCEPT !.step = "end",
                                                               !.etl = o]]
    /\ UNCHANGED <<parserVars, runVars, td, sl>>

\* run_etl: the stock list fetched and, if there is one, written under its
\* fixed name; "Success" returned
Stock(w) ==
    /\ bf.phase = "pool"
    /\ bf.worker[w].step = "stock"
    /\ \E have_list \in BOOLEAN :
          bf' = [bf EXCEPT
                   !.worker[w] = [bf.worker[w] EXCEPT !.step = "end"],
                   !.writes = IF have_list
                              THEN bf.writes \cup
                                     {[file |-> StockFile,
                                       task |-> bf.worker[w].task,
                                       thread |-> w]}
                              ELSE bf.writes]
    /\ UNCHANGED <<parserVars, runVars, td, sl>>

\* process_date returns; the thread is free again
Finish(w) ==
    /\ bf.phase = "pool"
    /\ bf.worker[w].step = "end"
    /\ LET k == bf.worker[w].task
       IN  bf' = [bf EXCEPT
                    !.future[k] = process_date(bf.worker[w].etl, bf.future[k].runs),
                    !.worker[w] = IdleWorker]
    /\ UNCHANGED <<parserVars, runVars, td, sl>>

\* the with block ends: shutdown(wait=True) returns once every task is done
Shutdown ==
    /\ bf.phase = "pool"
    /\ bf.queue > Len(bf.date_list)
    /\ \A w \in 1..bf.max_workers : bf.worker[w].step = "idle"
    /\ bf' = [bf EXCEPT !.phase = "returned"]
    /\ UNCHANGED <<parserVars, runVars, td, sl>>

NextBackfill ==
    \/ ParseDates
    \/ QueueDate
    \/ OpenPool
    \/ \E w \in 1..MaxWorkers :
          /\ w <= bf.max_workers
          /\ \/ TakeTask(w)
             \/ Fetch(w)
             \/ ParseAndStore(w)
             \/ Stock(w)
             \/ Finish(w)
    \/ Shutdown

SpecBackfill == InitBackfill /\ [][NextBackfill]_vars

(***************************************************************************)
(* fetch_stock_list (src/src/stock_list_scraper.py) and the step of        *)
(* run_etl that stores what it returns.  The server holds the records      *)
(* 1..sl.records and answers a request with the records that follow the    *)
(* offset it is asked for, at most a page of them.                         *)
(***************************************************************************)
MaxRecords == 4
PageSize == 2

\* (variant: the offsets advance by the page size asked for)
NextOffsetPageSize(offset, increment) == offset + PageSize

\* idx_params["indexFrom"] += increment, idx_params["start"] += increment
NextOffset(offset, increment) == offset + increment

\* data["data"] of a server that honours the offset: n records from offset on
ServerPage(offset, n) == [x \in 1..n |-> offset + x]

\* how many records the server can still send from offset on, in one page
Available(offset) ==
    IF offset >= sl.records THEN 0
    ELSE IF sl.records - offset > PageSize THEN PageSize
    ELSE sl.records - offset

InitStockList ==
    /\ ParserOff
    /\ bf = NoBackfill
    /\ td = NoTarget
    /\ \E n \in 0..MaxRecords : sl = [NoStockList EXCEPT !.phase = "loop", !.records = n]

\* requests.get or raise_for_status raises: except Exception, break
RequestFails ==
    /\ sl.phase = "loop"
    /\ sl' = [sl EXCEPT !.phase = "returned", !.requests = sl.requests + 1,
                        !.failed = TRUE]
    /\ UNCHANGED <<parserVars, runVars, bf, td>>

\* response.json() raises JSONDecodeError: break
JsonDecodeError ==
    /\ sl.phase = "loop"
    /\ sl' = [sl EXCEPT !.phase = "returned", !.requests = sl.requests + 1,
                        !.failed = TRUE]
    /\ UNCHANGED <<parserVars, runVars, bf, td>>

\* "data" not in data: break
UnexpectedFormat ==
    /\ sl.phase = "loop"
    /\ sl' = [sl EXCEPT !.phase = "returned", !.requests = sl.requests + 1,
                        !.failed = TRUE]
    /\ UNCHANGED <<parserVars, runVars, bf, td>>

\* a page is received, with the recordsTotal the server reports (0 when the
\* key is missing): an empty page ends the loop, any other page is added to
\* all_profiles and ends the loop when recordsTotal is reached; otherwise both
\* offsets advance by the number of records received
ReceivePage ==
    /\ sl.phase = "loop"
    /\ \E n \in 0..Available(sl.indexFrom), total \in 0..MaxRecords :
         LET profiles == ServerPage(sl.indexFrom, n)
             all == sl.all_profiles \o profiles
         IN  IF profiles = <<>>
             THEN sl' = [sl EXCEPT !.phase = "returned",
                                   !.requests = sl.requests + 1,
                                   !.total_records = total]
             ELSE IF Len(all) >= total
             THEN sl' = [sl EXCEPT !.phase = "returned",
                                   !.requests = sl.requests + 1,
                                   !.total_records = total,
                                   !.all_profiles = all]
             ELSE sl' = [sl EXCEPT !.requests = sl.requests + 1,
                                   !.total_records = total,
                                   !.all_profiles = all,
                                   !.indexFrom = NextOffset(sl.indexFrom, Len(profiles)),
                                   !.start = NextOffset(sl.start, Len(profiles))]
    /\ UNCHANGED <<parserVars, runVars, bf, td>>

\* run_etl: stock_list_data = fetch_stock_list(), handed to save_or_upload
\* under the fixed name whenever it is not empty
StoreStockList ==
    /\ sl.phase = "returned"
    /\ \E local_ok \in BOOLEAN, up \in UploadOutcomes :
         LET s == save_or_upload(stock_filename, local_ok, up)
         IN  IF sl.all_profiles # <<>>
             THEN /\ saves' = Append(saves, s)
                  /\ written' = IF s.local THEN Append(written, stock_filename)
                                ELSE written
                  /\ sl' = [sl EXCEPT !.phase = "done", !.saved = TRUE]
             ELSE /\ sl' = [sl EXCEPT !.phase = "done"]
                  /\ UNCHANGED <<saves, written>>
    /\ UNCHANGED <<parserVars, fetch_results, doc_idx, summary_msgs, bf, td>>

NextStockList ==
    \/ RequestFails
    \/ JsonDecodeError
    \/ UnexpectedFormat
    \/ ReceivePage
    \/ StoreStockList

\* the loop has no blocking step but the request, which has a timeout
SpecStockList == InitStockList /\ [][NextStockList]_vars /\ WF_vars(NextStockList)

(***************************************************************************)
(* Properties.                                                             *)
(***************************************************************************)
Returned == pc \in {"done", "stock", "etl_done"} /\ exc = ""
PastCreation == pc \notin {"page", "header"}

\* the raw row a row of the frame comes from, by its index label
RawRow(r) == Pad(all_rows[r.idx + 1], Len(final_header))
\* the raw cell under the column named c of the reconstructed schema
RawCell(r, c) == RawRow(r)[CHOOSE p \in 1..Len(final_header) : final_header[p] = c]

NumPerc(cols) == Cardinality({j \in 1..Len(cols) : IsPercCol(cols[j])})

\* the issuers of d with a row whose previous and current percentage differ
ChangedIssuers(d) ==
    {r.cells[ColPos(d, "Nama Emiten")] :
        r \in {d.rows[x] : x \in {y \in 1..Len(d.rows) :
                  d.rows[y].cells[ColPos(d, prev_col)]
                      # d.rows[y].cells[ColPos(d, curr_col)]}}}

\* d restricted to the rows of those issuers
ChangedSubset(d) ==
    LET Keep(r) == r.cells[ColPos(d, "Nama Emiten")] \in ChangedIssuers(d)
    IN  [d EXCEPT !.rows = SelectSeq(d.rows, Keep)]

\* C1: with two percentage columns, one of the datasets the parser hands back is
\* the changed subset: the rows of exactly the issuers whose previous and current
\* percentage differ.
C1_ChangedSubsetExposed ==
    (Returned /\ HasCol(df, "Nama Emiten") /\ NumPerc(df.cols) >= 2)
        => \E x \in 1..Len(ret) : ret[x] = ChangedSubset(df)

\* C2: parse_shareholder_pdf returns two datasets, the second with the schema of
\* the first and rows taken from the first.
C2_ReturnsFullAndFiltered ==
    Returned =>
        /\ Len(ret) = 2
        /\ ret[2].cols = ret[1].cols
        /\ \A x \in 1..Len(ret[2].rows) :
               \E y \in 1..Len(ret[1].rows) : ret[2].rows[x] = ret[1].rows[y]

\* the raw header cells that hold a date D[D]-MMM-YYYY, in any letter case
CellsWithDate ==
    {Str("Kepemilikan Per 15-DEC-2025"), Str("Kepemilikan Per 16-DEC-2025"),
     Str("Kepe9m 17-dec-2025 x"), Str("Per 18-DEC-2025\nJumlah Saham")}
EmptyCells == {None, Str(""), Str(" ")}

\* C3: in every step of header reconstruction, a date cell followed by two empty
\* cells appends exactly the three columns Jumlah Saham, Saham Gabungan Per
\* Investor, Persentase Kepemilikan Per Investor (%) of its date, in this order,
\* and consumes three raw cells; a non-date non-empty cell appends its label alone
\* and consumes one cell; the header No, Nama Emiten, date, empty, empty gives
\* five columns.
C3_DateGroupExpansion ==
    /\ [][(pc = "header" /\ i < Len(header)) =>
            LET c == header[i + 1]
            IN  /\ (/\ c \in CellsWithDate
                    /\ i + 2 < Len(header)
                    /\ header[i + 2] \in EmptyCells
                    /\ header[i + 3] \in EmptyCells)
                      => /\ final_header' = final_header \o
                              <<"Kepemilikan Per " \o DateOf(c) \o " - Jumlah Saham",
                                "Kepemilikan Per " \o DateOf(c)
                                    \o " - Saham Gabungan Per Investor",
                                "Kepemilikan Per " \o DateOf(c)
                                    \o " - Persentase Kepemilikan Per Investor (%)">>
                         /\ i' = i + 3
                /\ (c \notin CellsWithDate /\ c \notin EmptyCells)
                      => /\ final_header' = Append(final_header, NormH(c))
                         /\ i' = i + 1]_vars
    /\ [](pc = "header" /\ header = ExampleHeader /\ i >= Len(header)
            => final_header =
                 <<"No", "Nama Emiten",
                   "Kepemilikan Per 15-DEC-2025 - Jumlah Saham",
                   "Kepemilikan Per 15-DEC-2025 - Saham Gabungan Per Investor",
                   "Kepemilikan Per 15-DEC-2025 - Persentase Kepemilikan Per Investor (%)">>)

\* a date group of three raw cells has just been expanded behind two labels
C3_Witness ==
    pc = "header" /\ header = ExampleHeader /\ i = 5 /\ Len(final_header) = 5

\* C4: once the frame has been built, no accumulated row had a number of cells
\* different from the number of columns: such a row makes the construction fail.
C4_MismatchAlwaysFails ==
    (PastCreation /\ bound
       /\ \E r \in 1..Len(all_rows) : Len(all_rows[r]) # Len(final_header))
        => exc = "ValueError"

FillNames == {cols_to_fill[x] : x \in 1..Len(cols_to_fill)}
NonEmptyVal(v) == ~isna(v) /\ v # Str("")

\* C5 as stated: in the final dataset No, Nama Emiten, Nama Pemegang Saham and
\* Kebangsaan are non-empty in every row, whatever the first row holds.
C5_GroupingCellsNeverEmpty ==
    Returned =>
        \A c \in FillNames : HasCol(ret[1], c) =>
            \A x \in 1..Len(ret[1].rows) :
                NonEmptyVal(ret[1].rows[x].cells[ColPos(ret[1], c)])

\* C5 (amended): in the final dataset, in each of the columns No, Nama Emiten,
\* Nama Pemegang Saham and Kebangsaan, every row that comes after a row with a
\* non-empty cell has a non-empty cell; so all are non-empty when the first row's
\* are.
C5_FilledAfterFirstValue ==
    Returned =>
        \A c \in FillNames : HasCol(ret[1], c) =>
            \A x, y \in 1..Len(ret[1].rows) :
                (x < y /\ NonEmptyVal(ret[1].rows[x].cells[ColPos(ret[1], c)]))
                    => NonEmptyVal(ret[1].rows[y].cells[ColPos(ret[1], c)])

\* a returned row whose raw issuer cell was empty holds a text taken from above
C5_Witness ==
    /\ Returned
    /\ HasCol(ret[1], "Nama Emiten")
    /\ \E y \in 1..Len(ret[1].rows) :
          /\ RawCell(ret[1].rows[y], "Nama Emiten") \in EmptyCells
          /\ ret[1].rows[y].cells[ColPos(ret[1], "Nama Emiten")].k = "str"

\* rows after the first two of every table of the pages from p on
RECURSIVE SumDataRows(_)
SumDataRows(p) ==
    IF p > Len(pages) THEN 0
    ELSE (IF Len(pages[p]) > 2 THEN Len(pages[p]) - 2 ELSE 0) + SumDataRows(p + 1)

\* the data rows (page, row) whose cell under "No" reads "No", blanks aside
HeaderLabelRows ==
    {pr \in {<<p, x>> : p \in 2..Len(pages), x \in 3..(MaxRows + 3)} :
        /\ pr[2] <= Len(pages[pr[1]])
        /\ \E j \in 1..Len(final_header) :
              /\ final_header[j] = "No"
              /\ j <= Len(pages[pr[1]][pr[2]])
              /\ Strip(OrEmpty(pages[pr[1]][pr[2]][j])) = "No"}

CanonicalRows == \A r \in 1..Len(all_rows) : Len(all_rows[r]) = Len(final_header)

\* C6: when every row has the cardinality of the schema, the final dataset has as
\* many rows as the tables of the pages after the first have rows after their
\* first two, less the rows whose sequence-number cell reads "No".
C6_RowCount ==
    (Returned /\ CanonicalRows)
        => Len(ret[1].rows) = SumDataRows(2) - Cardinality(HeaderLabelRows)

\* C7: no row of the final dataset comes from a raw row all of whose cells are
\* empty or missing.
C7_NoEmptyRowRetained ==
    Returned =>
        \A x \in 1..Len(ret[1].rows) :
            \E j \in 1..Len(all_rows[ret[1].rows[x].idx + 1]) :
                all_rows[ret[1].rows[x].idx + 1][j] \notin EmptyCells

\* the trailing block of columns the coercion designates, by position
TrailingNumeric(d) == {j \in 1..Len(d.cols) : j > Len(d.cols) - NumericWindow}
\* the raw texts that are numbers once "," and "%" are removed
NumericTexts ==
    {Str("0"), Str("1"), Str("2"), Str("3"), Str("1,000"), Str("5.00%"),
     Str("6.00%"), Str("-5")}

\* C8 as stated: every designated numeric cell of the final dataset is a number
\* and is not negative.
C8_NumericNonNegative ==
    Returned =>
        \A x \in 1..Len(ret[1].rows) : \A j \in TrailingNumeric(ret[1]) :
            /\ ret[1].rows[x].cells[j].k = "num"
            /\ ret[1].rows[x].cells[j].n >= 0

\* C8 (amended): every designated numeric cell of the final dataset is a number,
\* never text and never missing; it is zero when the raw cell was missing or did
\* not parse, and the parsed number otherwise, which may be negative.  A cell
\* value never makes the conversion raise: an IndexError comes from the schema
\* only (fewer than 4 columns, fewer than 2 percentage columns).
C8_NumericOrZero ==
    /\ Returned =>
          \A x \in 1..Len(ret[1].rows) : \A j \in TrailingNumeric(ret[1]) :
              /\ ret[1].rows[x].cells[j].k = "num"
              /\ (/\ ret[1].cols[j] \notin FillNames
                  /\ RawCell(ret[1].rows[x], ret[1].cols[j]) \notin NumericTexts)
                    => ret[1].rows[x].cells[j].n = 0
    /\ (pc = "raised" /\ exc = "IndexError")
          => (Len(df.cols) < 4 \/ NumPerc(df.cols) < 2)

\* a returned numeric cell that is negative, another that was coerced to zero
C8_Witness ==
    /\ Returned
    /\ \E x, x2 \in 1..Len(ret[1].rows) : \E j, j2 \in TrailingNumeric(ret[1]) :
          /\ ret[1].rows[x].cells[j] = Num(-500)
          /\ RawCell(ret[1].rows[x2], ret[1].cols[j2]) \in {None, Str("abc")}
          /\ ret[1].rows[x2].cells[j2] = Num(0)

\* the schema the while loop builds from a header row, from 0-based cell k on
RECURSIVE Reconstruct(_, _)
Reconstruct(hdr, k) ==
    IF k >= Len(hdr) THEN <<>>
    ELSE Emit(hdr[k + 1]) \o Reconstruct(hdr, k + Advance(hdr, k))

FirstTablePage ==
    CHOOSE p \in 2..Len(pages) :
        pages[p] # NoTable /\ \A q \in 2..(p - 1) : pages[q] = NoTable

\* C9: the schema the frame is built with is the one reconstructed from the
\* header row of the first table-bearing page.
C9_SchemaFromFirstTablePage ==
    (PastCreation /\ bound) => final_header = Reconstruct(pages[FirstTablePage][1], 0)

\* C10: with fewer than two percentage columns in the schema the parser never
\* goes on to pick columns: it raises IndexError (unless the frame could not be
\* built at all), which run_etl answers by raising, whereas it answers the
\* ValueError of a cardinality mismatch by returning "No data found".
C10_TooFewPercentageColumns ==
    /\ pc \in {"unnamed", "dropna", "refill", "done"} => NumPerc(df.cols) >= 2
    /\ (pc \in {"raised", "done", "etl_done"} /\ bound /\ NumPerc(final_header) < 2)
          => \/ exc = "IndexError"
             \/ exc = "ValueError" /\ ~CanonicalRows
    /\ pc = "etl_done" =>
          /\ exc = "IndexError" => etl.kind = "raise"
          /\ exc = "ValueError" => (etl.kind = "return" /\ etl.msg = "No data found")

\* a schema with one percentage column, reported by run_etl raising
C10_Witness ==
    /\ pc = "etl_done"
    /\ NumPerc(final_header) = 1
    /\ exc = "IndexError"
    /\ etl.kind = "raise"

\* the parser has ended, one way or the other, on a document without data rows
EndedWithoutRows == pc \in {"raised", "done", "stock", "etl_done"} /\ all_rows = <<>>

\* C11: for a document that yields no data row, the cover-only document and the
\* document without any table after the cover included, parse_shareholder_pdf
\* returns an empty dataset without raising, and run_etl neither raises nor
\* stores anything for it.
C11_NoDataIsBenign ==
    EndedWithoutRows =>
        /\ exc = ""
        /\ Len(ret) >= 1 /\ IsEmpty(ret[1])
        /\ pc \in {"stock", "etl_done"} => (etl.kind = "return" /\ ~etl.stored)

\* C12: run_etl always gets to the last fetched document: a document whose
\* parsing raised does not keep the documents after it from being parsed.
C12_SiblingsStillProcessed ==
    pc = "etl_done" => doc_idx = Len(fetch_results)

\* C14: a cardinality mismatch ends run_etl by raising, HTTP 500 at
\* idx_scraper_entry, and no CSV of the document is written.
C14_MismatchPropagates ==
    (pc = "etl_done" /\ exc = "ValueError") =>
        /\ etl.kind = "raise"
        /\ idx_scraper_entry(etl) = 500
        /\ \A x \in 1..Len(written) :
              written[x] # csv_full(fetch_results[doc_idx].fileName)

\* C16: the forward-fill applied again to a frame it has filled changes no cell,
\* after the first pass as in the dataset returned.
C16_ForwardFillIdempotent ==
    /\ pc = "drop_cols" => FillColumns(df) = df
    /\ (Returned /\ Len(ret) >= 1) => FillColumns(ret[1]) = ret[1]

\* two rows in a row were filled by the first pass
C16_Witness ==
    /\ pc = "drop_cols"
    /\ HasCol(df, "Nama Emiten")
    /\ \E y \in 2..(Len(df.rows) - 1) :
          /\ df.rows[y + 1].idx = df.rows[y].idx + 1
          /\ RawCell(df.rows[y], "Nama Emiten") = None
          /\ RawCell(df.rows[y + 1], "Nama Emiten") = None
          /\ df.rows[y].cells[ColPos(df, "Nama Emiten")].k = "str"
          /\ df.rows[y + 1].cells[ColPos(df, "Nama Emiten")].k = "str"

\* row y of d starts a group: its raw sequence number or issuer is there and is
\* not that of the row before it
StartsGroup(d, y) ==
    /\ y > 1
    /\ \E c \in {"No", "Nama Emiten"} :
          /\ HasCol(d, c)
          /\ RawCell(d.rows[y], c) \notin EmptyCells
          /\ RawCell(d.rows[y], c) # RawCell(d.rows[y - 1], c)

\* C17: in the dataset returned, a row that starts a group and whose own raw
\* issuer, holder or nationality cell is empty holds no value in that column:
\* nothing is copied into it from the group before.
C17_NoBleedAcrossGroups ==
    (Returned /\ Len(ret) >= 1) =>
        \A y \in 1..Len(ret[1].rows) : StartsGroup(ret[1], y) =>
            \A c \in {"Nama Emiten", "Nama Pemegang Saham", "Kebangsaan"} :
                (HasCol(ret[1], c) /\ RawCell(ret[1].rows[y], c) \in EmptyCells)
                    => isna(ret[1].rows[y].cells[ColPos(ret[1], c)])

\* the data rows of the pages of doc from page p on
RECURSIVE RowsFrom(_, _)
RowsFrom(doc, p) ==
    IF p > Len(doc) THEN <<>>
    ELSE (IF Len(doc[p]) > 2 THEN SubSeq(doc[p], 3, Len(doc[p])) ELSE <<>>)
             \o RowsFrom(doc, p + 1)

\* doc without the pages after the first that have no table
WithoutEmptyPages(doc) ==
    <<doc[1]>> \o SelectSeq(Tail(doc), LAMBDA pg : pg # NoTable)

\* C18: a step at a page without a table only moves to the next page, and the
\* rows assembled are those of the document with its table-less pages removed.
C18_TablelessPageSkipped ==
    /\ [][(pc = "page" /\ page_idx <= Len(pages) /\ pages[page_idx] = NoTable)
            => /\ pc' = "page"
               /\ page_idx' = page_idx + 1
               /\ all_rows' = all_rows
               /\ final_header' = final_header
               /\ exc' = exc]_vars
    /\ [](PastCreation => all_rows = RowsFrom(WithoutEmptyPages(pages), 2))

\* a page without a table was passed and the page after it gave rows
C18_Witness ==
    /\ PastCreation
    /\ Len(pages) = 3
    /\ pages[2] = NoTable
    /\ Len(pages[3]) > 2
    /\ all_rows = RowsFrom(<<pages[1], pages[3]>>, 2)
    /\ all_rows # <<>>

\* C20: in the dataset returned, in each of No, Nama Emiten, Nama Pemegang Saham
\* and Kebangsaan, a row whose raw cell is not empty holds its own cleaned text,
\* and a row whose raw cell is empty holds the cleaned text of the nearest row
\* of the dataset above it whose raw cell is not empty.
C20_FilledFromNearestRetained ==
    (Returned /\ Len(ret) >= 1) =>
        \A c \in FillNames : HasCol(ret[1], c) =>
            \A y \in 1..Len(ret[1].rows) :
                LET d == ret[1]
                    j == ColPos(d, c)
                    prior == {x \in 1..(y - 1) : RawCell(d.rows[x], c) \notin EmptyCells}
                IN  IF RawCell(d.rows[y], c) \notin EmptyCells
                    THEN d.rows[y].cells[j]
                             = Str(NoPct(NoComma(Strip(RawCell(d.rows[y], c).s))))
                    ELSE prior # {} =>
                             LET x == CHOOSE q \in prior : \A z \in prior : z <= q
                             IN  d.rows[y].cells[j]
                                     = Str(NoPct(NoComma(Strip(RawCell(d.rows[x], c).s))))

\* the calendar day before a date
Yesterday(dt) ==
    IF dt.d > 1 THEN [dt EXCEPT !.d = dt.d - 1]
    ELSE LET k == CHOOSE x \in 2..Len(Months) :
                      Months[x].y = dt.y /\ Months[x].m = dt.m
         IN  [y |-> Months[k - 1].y, m |-> Months[k - 1].m, d |-> Months[k - 1].n]

YYYYMMDD(dt) == dt.y * 10000 + dt.m * 100 + dt.d

\* C19: get_target_date gives the date three days back on a Monday and the day
\* before on every other day, Saturday and Sunday included, as YYYYMMDD.
C19_TargetDate ==
    td.phase \in {"main", "etl_main"} =>
        LET today == fromordinal(td.today)
        IN  IF weekday(td.today) = 0
            THEN td.result = YYYYMMDD(Yesterday(Yesterday(Yesterday(today))))
            ELSE td.result = YYYYMMDD(Yesterday(today))

\* the date a text YYYYMMDD names
ParseYMD(s) == [y |-> s \div 10000, m |-> (s \div 100) % 100, d |-> s % 100]

\* the calendar day after a date
Tomorrow(dt) ==
    LET k == CHOOSE x \in 1..Len(Months) : Months[x].y = dt.y /\ Months[x].m = dt.m
    IN  IF dt.d < Months[k].n THEN [dt EXCEPT !.d = dt.d + 1]
        ELSE [y |-> Months[k + 1].y, m |-> Months[k + 1].m, d |-> 1]

\* every calendar date from a to b, both included
RECURSIVE DatesBetween(_, _)
DatesBetween(a, b) ==
    IF YYYYMMDD(a) > YYYYMMDD(b) THEN <<>>
    ELSE <<YYYYMMDD(a)>> \o DatesBetween(Tomorrow(a), b)

BackfillReturned ==
    /\ bf.phase = "returned"
    /\ strptime(bf.start_date) # -1
    /\ strptime(bf.end_date) # -1

\* C13: when run_backfill returns, the dates queued are the calendar dates from
\* start_date to end_date inclusive, once each and none when start is after end;
\* each was run exactly once and its task ended with a result, "Failed" when
\* run_etl raised: no task is left holding an exception, whatever the other
\* tasks did and however the threads interleaved.
C13_BackfillCoversEveryDate ==
    /\ bf.phase \in {"pool", "returned"} =>
          /\ \A k \in 1..Len(bf.future) :
                /\ bf.future[k].kind # "exception"
                /\ bf.future[k].runs <= 1
          /\ \A w \in 1..Len(bf.worker) : \A v \in 1..Len(bf.worker) :
                (w # v /\ bf.worker[w].task # 0)
                    => bf.worker[w].task # bf.worker[v].task
    /\ BackfillReturned =>
          /\ bf.date_list = DatesBetween(ParseYMD(bf.start_date),
                                         ParseYMD(bf.end_date))
          /\ Len(bf.future) = Len(bf.date_list)
          /\ \A k \in 1..Len(bf.future) :
                /\ bf.future[k].kind = "result"
                /\ bf.future[k].runs = 1

\* a backfill over the end of February by two threads: the first date failed,
\* a later one succeeded
C13_Witness ==
    /\ BackfillReturned
    /\ bf.max_workers = 2
    /\ bf.date_list = <<20250227, 20250228, 20250301>>
    /\ bf.future[1].value = "Failed"
    /\ bf.future[3].value = "Success"

\* C15: no file is written by two threads of the pool, nor for two dates.
C15_NoSharedOutput ==
    \A a, b \in bf.writes :
        a.file = b.file => (a.thread = b.thread /\ a.task = b.task)

\* the day a date of the alphabet names, as YYYYMMDD
DateValue(d) ==
    CASE d = "15-DEC-2025" -> 20251215
      [] d = "16-DEC-2025" -> 20251216
      [] d = "17-DEC-2025" -> 20251217
      [] d = "18-DEC-2025" -> 20251218

\* the day in the name of a percentage column
PercDate(c) == DateValue(CHOOSE d \in Dates : c = PersentaseName(d))

\* C21: the columns picked as current and previous are the percentage columns
\* with the latest and the second-latest date, wherever they stand.
C21_PercentageColumnsByDate ==
    (pc \in {"unnamed", "dropna", "refill", "done", "stock", "etl_done"}
       /\ prev_col # "") =>
        LET P == {df.cols[j] : j \in {x \in 1..Len(df.cols) : IsPercCol(df.cols[x])}}
            latest == CHOOSE c \in P : \A e \in P : PercDate(e) <= PercDate(c)
            second == CHOOSE c \in P \ {latest} :
                          \A e \in P \ {latest} : PercDate(e) <= PercDate(c)
        IN  curr_col = latest /\ prev_col = second

\* C22 as stated: a date group consumes three raw cells when the two cells after
\* the date cell exist and are empty, and one cell in every other case.
C22_ThreeCellsOrOne ==
    [][(pc = "header" /\ i < Len(header) /\ header[i + 1] \in CellsWithDate) =>
          IF i + 2 < Len(header) /\ header[i + 2] \in EmptyCells
                                 /\ header[i + 3] \in EmptyCells
          THEN i' = i + 3
          ELSE i' = i + 1]_vars

\* the raw cells of the date group at 0-based position k: the date cell and the
\* empty cells right after it, two of them at most
Consumed(hdr, k) ==
    IF k + 1 < Len(hdr) /\ hdr[k + 2] \in EmptyCells
    THEN IF k + 2 < Len(hdr) /\ hdr[k + 3] \in EmptyCells THEN 3 ELSE 2
    ELSE 1

\* C22 (amended): a date group consumes its date cell and the empty cells that
\* follow it directly, at most two: three cells when both following cells are
\* empty, two when only the next one is (before a label or at the end of the
\* row), one otherwise.
C22_DateCellAndEmptyCellsAfterIt ==
    [][(pc = "header" /\ i < Len(header) /\ header[i + 1] \in CellsWithDate)
          => i' = i + Consumed(header, i)]_vars

\* a date group of two raw cells, a label after it, has just been consumed
C22_Witness ==
    /\ pc = "header"
    /\ i = 2
    /\ Len(header) >= 3
    /\ header[1] \in CellsWithDate
    /\ header[2] \in EmptyCells
    /\ header[3] \notin EmptyCells
    /\ Len(final_header) = 3

\* the date as it is written in a raw header cell
DateAsWritten(c) ==
    CASE c = Str("Kepemilikan Per 15-DEC-2025") -> "15-DEC-2025"
      [] c = Str("Kepemilikan Per 16-DEC-2025") -> "16-DEC-2025"
      [] c = Str("Kepe9m 17-dec-2025 x") -> "17-dec-2025"
      [] c = Str("Per 18-DEC-2025\nJumlah Saham") -> "18-DEC-2025"

\* C23: the three names emitted for a date cell embed one and the same date, the
\* date exactly as the raw cell writes it.
C23_DateKeptAsWritten ==
    [][(pc = "header" /\ i < Len(header) /\ header[i + 1] \in CellsWithDate) =>
          final_header' = final_header \o DateTriple(DateAsWritten(header[i + 1]))]_vars

\* C24: once the numeric conversion is done, the columns No, Nama Emiten, Nama
\* Pemegang Saham and Kebangsaan hold no number in any row, whatever the schema.
C24_TextColumnsKeepText ==
    pc \in {"perc", "unnamed", "dropna", "refill", "done", "stock", "etl_done"} =>
        \A c \in FillNames : HasCol(df, c) =>
            \A x \in 1..Len(df.rows) : df.rows[x].cells[ColPos(df, c)].k # "num"

\* C25: the diagnostic printed when the frame cannot be built gives the length
\* of the schema and the number of cells of the first row that differs from it.
C25_DiagnosticNamesOffendingRow ==
    diag.printed =>
        LET bad == {r \in 1..Len(all_rows) : Len(all_rows[r]) # Len(final_header)}
            first == CHOOSE r \in bad : \A q \in bad : r <= q
        IN  /\ diag.header_len = Len(final_header)
            /\ diag.first_row_len = Len(all_rows[first])

\* C26: every step of the header loop moves the index forward, never past the
\* end of the row; the cells it passes over after the first are empty, and a
\* cell that is not empty adds at least one column.
C26_HeaderLoopAdvances ==
    [][(pc = "header" /\ i < Len(header)) =>
          /\ i' > i
          /\ i' <= Len(header)
          /\ \A j \in (i + 2)..i' : header[j] \in EmptyCells
          /\ header[i + 1] \notin EmptyCells => Len(final_header') > Len(final_header)
          /\ header' = header]_vars

\* a date group of three cells and the label after it have been consumed
C26_Witness ==
    /\ pc = "header"
    /\ Len(header) = 4
    /\ i = 4
    /\ header[1] \in CellsWithDate
    /\ header[2] \in EmptyCells
    /\ header[3] \in EmptyCells
    /\ header[4] \notin EmptyCells
    /\ Len(final_header) = 4

\* from 0-based cell k on: 3 less the cells consumed, summed over the date
\* groups, less the empty cells outside a date group
RECURSIVE Balance(_, _)
Balance(hdr, k) ==
    IF k >= Len(hdr) THEN 0
    ELSE IF hdr[k + 1] \in CellsWithDate
    THEN (3 - Consumed(hdr, k)) + Balance(hdr, k + Consumed(hdr, k))
    ELSE (IF hdr[k + 1] \in EmptyCells THEN -1 ELSE 0) + Balance(hdr, k + 1)

\* C27: when the header loop has ended, the schema is as long as the raw row
\* plus that balance, so as long as the raw row only when the balance is zero;
\* a date label in one cell with a label right after it makes it 2 longer.
C27_SchemaLength ==
    (pc = "header" /\ i >= Len(header)) =>
        /\ Len(final_header) = Len(header) + Balance(header, 0)
        /\ (Len(final_header) = Len(header)) <=> (Balance(header, 0) = 0)
        /\ (/\ Len(header) = 2
            /\ header[1] \in CellsWithDate
            /\ header[2] \notin EmptyCells
            /\ header[2] \notin CellsWithDate) => Len(final_header) = 4

\* a merged date label and a label: four columns from two raw cells
C27_Witness ==
    /\ pc = "header"
    /\ i = 2
    /\ Len(header) = 2
    /\ header[1] \in CellsWithDate
    /\ header[2] = Str("Perubahan")
    /\ Len(final_header) = 4

\* the calls of save_or_upload made for the CSV of the document called name
SavesOf(name) == {y \in 1..Len(saves) : saves[y].file = csv_full(name)}

\* C28: a document listed in the "Processed ..." summary of run_etl had its
\* CSV stored: the local save succeeded and the upload to cloud storage, if
\* there was one, did not fail.
C28_ProcessedOnlyIfStored ==
    \A x \in 1..Len(summary_msgs) :
        /\ SavesOf(summary_msgs[x][1]) # {}
        /\ \A y \in SavesOf(summary_msgs[x][1]) :
              saves[y].local /\ saves[y].upload # "failed"

\* C29: fetch_stock_list never raises and always returns, after at most one
\* request per record the server can report plus one; every request is made with
\* indexFrom and start both equal to the number of records accumulated, and
\* the records accumulated from a server that honours the offset are the
\* first records of the server, each once and none left out.
C29_StockListPagination ==
    /\ [](/\ ~sl.raised
          /\ sl.requests <= MaxRecords + 1
          /\ sl.requests <= Len(sl.all_profiles) + 1
          /\ sl.phase = "loop" =>
                (sl.indexFrom = Len(sl.all_profiles) /\ sl.start = Len(sl.all_profiles))
          /\ \A x \in 1..Len(sl.all_profiles) : sl.all_profiles[x] = x)
    /\ <>(sl.phase \in {"returned", "done"})

\* a list of three records or more returned whole after two requests or more,
\* one of which was answered with less than a page
C29_Witness ==
    /\ sl.phase = "returned"
    /\ sl.requests >= 3
    /\ sl.records >= 3
    /\ Len(sl.all_profiles) = sl.records
    /\ sl.total_records = sl.records
    /\ ~sl.failed

\* C30: a list cut short by a failed request or a malformed response after
\* at least one page is neither written to idx_stock_list.json nor uploaded
\* under that name.
C30_PartialListNotSaved ==
    (/\ sl.phase = "done"
     /\ sl.failed
     /\ sl.all_profiles # <<>>
     /\ Len(sl.all_profiles) < sl.records) =>
        \A y \in 1..Len(saves) :
            saves[y].file = stock_filename =>
                (~saves[y].local /\ saves[y].upload # "ok")

=============================================================================
